---- MODULE Spec2Model ----
(***************************************************************************)
(* The infinite virtual timeline of the GanttChart component               *)
(* (src/package/src/GanttChart.tsx) with the scale registry it imports     *)
(* (PERIOD_CONFIGS, src/unnamed/part_011 lines 264-617).                   *)
(*                                                                         *)
(* Dates are integers: minutes since 1970-01-01 00:00, local time = UTC    *)
(* (no daylight saving).  Pixels are integers (1rem = 16px, as the code    *)
(* assumes).  Indices into allPeriods are the code's 0-based indices; the  *)
(* operator At reads a sequence at a 0-based index.                        *)
(*                                                                         *)
(* One action is one event-loop task: a DOM event handler together with    *)
(* the React state commit it causes, or one zero-delay timer callback.     *)
(***************************************************************************)
EXTENDS Integers, Sequences, FiniteSets, TLC

\* ------------------------------------------------------------------------
\* Program constants (GanttChart.tsx 121-124, 412)
\* ------------------------------------------------------------------------
TOTAL_PERIODS == 200
VISIBLE_BUFFER == 50
PERIODS_TO_SHIFT == 100
\* SCROLL_THRESHOLD = 0.1, kept as a percentage so that arithmetic stays integral
SCROLL_THRESHOLD_PCT == 10
\* edgeThreshold = Math.floor(TOTAL_PERIODS * 0.25), as a percentage
EDGE_THRESHOLD_PCT == 25
\* periodConfig.width * 16: rem to px
REM_PX == 16

\* ------------------------------------------------------------------------
\* Bounds of the model
\* ------------------------------------------------------------------------
\* at most MaxShifts net window shifts away from the last generation
MaxShifts == 1
\* at most MaxTimers zero-delay callbacks pending at once
MaxTimers == 2
\* The user's input is bounded as well (userMayAct, selectScale): a gesture or a
\* click arrives when no scroll event is queued and no deferred scroll of an
\* initialization or a regeneration is pending, and the scale is changed when no
\* callback is pending at all.  Deferred phases of shifts may be overtaken by
\* scroll gestures and by jumps.

Scales == {"hours", "day", "week", "bi-week", "month", "quarter", "year", "5-years"}

\* ------------------------------------------------------------------------
\* Calendar arithmetic on minutes since the epoch (JS Date getters)
\* ------------------------------------------------------------------------
MinutesPerDay == 24 * 60

DayNumber(t) == t \div MinutesPerDay

\* civil date of a day number (proleptic Gregorian calendar), in steps: the year
\* of the 400-year era, the day of the year counted from 1 March, the month
\* counted from March
yearOfEra(doe) == (doe - doe \div 1460 + doe \div 36524 - doe \div 146096) \div 365

dayOfYear(doe, yoe) == doe - (365 * yoe + yoe \div 4 - yoe \div 100)

monthFromMarch(doy) == (5 * doy + 2) \div 153

civilOfMonth(era, yoe, doy, mp) ==
    [year  |-> yoe + era * 400 + (IF mp < 10 THEN 0 ELSE 1),
     month |-> IF mp < 10 THEN mp + 2 ELSE mp - 10,
     date  |-> doy - (153 * mp + 2) \div 5 + 1]

civilOfDayOfYear(era, yoe, doy) == civilOfMonth(era, yoe, doy, monthFromMarch(doy))

civilOfDayOfEra(era, doe, yoe) == civilOfDayOfYear(era, yoe, dayOfYear(doe, yoe))

CivilOf(z0) ==
    civilOfDayOfEra((z0 + 719468) \div 146097, (z0 + 719468) % 146097,
                    yearOfEra((z0 + 719468) % 146097))

\* day number of day d of month mp (counted from March) of the March-based year y
daysFromMarchYear(y, mp, d) ==
    (y \div 400) * 146097
        + (y % 400) * 365 + (y % 400) \div 4 - (y % 400) \div 100
        + (153 * mp + 2) \div 5 + d - 1 - 719468

\* day number of a civil date; month is 0-based as in JS
DaysFromCivil(y0, month0, d) ==
    daysFromMarchYear(IF month0 <= 1 THEN y0 - 1 ELSE y0,
                      IF month0 >= 2 THEN month0 - 2 ELSE month0 + 10, d)

getFullYear(t) == CivilOf(DayNumber(t)).year
getMonth(t)    == CivilOf(DayNumber(t)).month
getDate(t)     == CivilOf(DayNumber(t)).date
getHours(t)    == (t % MinutesPerDay) \div 60
getMinutes(t)  == t % 60
\* 0 = Sunday; 1970-01-01 was a Thursday
getDay(t)      == (DayNumber(t) + 4) % 7

\* new Date(y, m, d, hh, mm) for a valid civil date
MkDate(y, m, d, hh, mm) == DaysFromCivil(y, m, d) * MinutesPerDay + hh * 60 + mm

\* date-fns isSameYear, isSameMonth (same month of the same year), isSameDay,
\* isSameHour.  Two instants a year (a month) or more apart are told apart
\* before their civil dates are computed.
isSameYear(a, b) ==
    /\ DayNumber(a) - DayNumber(b) < 366 /\ DayNumber(b) - DayNumber(a) < 366
    /\ getFullYear(a) = getFullYear(b)
sameCivilMonth(ca, cb) == ca.year = cb.year /\ ca.month = cb.month
isSameMonth(a, b) ==
    /\ DayNumber(a) - DayNumber(b) < 31 /\ DayNumber(b) - DayNumber(a) < 31
    /\ sameCivilMonth(CivilOf(DayNumber(a)), CivilOf(DayNumber(b)))
isSameDay(a, b)   == DayNumber(a) = DayNumber(b)
isSameHour(a, b)  == a \div 60 = b \div 60

DaysInMonth(y, m) ==
    DaysFromCivil(IF m = 11 THEN y + 1 ELSE y, IF m = 11 THEN 0 ELSE m + 1, 1)
        - DaysFromCivil(y, m, 1)

\* day d, clamped to the length of the month, of month mm (months since year 0),
\* at the given time of day
dateInMonth(mm, d, clock) ==
    DaysFromCivil(mm \div 12, mm % 12,
                  IF d >= DaysInMonth(mm \div 12, mm % 12)
                  THEN DaysInMonth(mm \div 12, mm % 12) ELSE d) * MinutesPerDay + clock

addMonthsCivil(c, n, clock) == dateInMonth(c.year * 12 + c.month + n, c.date, clock)

\* date-fns addMonths: same time of day, day of month clamped to the target month
addMonths(t, n) == addMonthsCivil(CivilOf(DayNumber(t)), n, t % MinutesPerDay)

\* date-fns add(date, duration): months first, then days, then the clock part
add(t, dur) ==
    (IF dur.months # 0 THEN addMonths(t, dur.months) ELSE t)
        + dur.days * MinutesPerDay + dur.hours * 60 + dur.minutes

\* ------------------------------------------------------------------------
\* Scale registry (PERIOD_CONFIGS)
\* ------------------------------------------------------------------------
Duration(mo, d, h, mi) == [months |-> mo, days |-> d, hours |-> h, minutes |-> mi]

increment(sc) ==
    CASE sc = "hours"   -> Duration(0, 0, 0, 15)
      [] sc = "day"     -> Duration(0, 0, 1, 0)
      [] sc = "week"    -> Duration(0, 1, 0, 0)
      [] sc = "bi-week" -> Duration(0, 1, 0, 0)
      [] sc = "month"   -> Duration(0, 1, 0, 0)
      [] sc = "quarter" -> Duration(0, 7, 0, 0)
      [] sc = "year"    -> Duration(0, 7, 0, 0)
      [] sc = "5-years" -> Duration(1, 0, 0, 0)

\* a variant that spreads the increment without negating its key
negIncrementKeepsSign(sc) == increment(sc)

\* the increment with its single key negated (GanttChart.tsx 187-192)
negIncrement(sc) ==
    LET i == increment(sc)
    IN  Duration(-i.months, -i.days, -i.hours, -i.minutes)

\* periodConfig.width * 16, in px (widths 6, 3, 7, 3.5, 1.75, 4.5, 2, 2 rem)
periodWidthPx(sc) ==
    CASE sc = "hours"   -> 6 * REM_PX
      [] sc = "day"     -> 3 * REM_PX
      [] sc = "week"    -> 7 * REM_PX
      [] sc = "bi-week" -> (7 * REM_PX) \div 2
      [] sc = "month"   -> (7 * REM_PX) \div 4
      [] sc = "quarter" -> (9 * REM_PX) \div 2
      [] sc = "year"    -> 2 * REM_PX
      [] sc = "5-years" -> 2 * REM_PX

alignDate(sc, t) ==
    CASE sc = "hours"   -> t - getMinutes(t) + (getMinutes(t) \div 15) * 15
      [] sc = "day"     -> t - getMinutes(t)
      [] sc \in {"week", "bi-week", "month"} -> DayNumber(t) * MinutesPerDay
      [] sc \in {"quarter", "year"} -> (DayNumber(t) - getDay(t)) * MinutesPerDay
      [] sc = "5-years" -> DaysFromCivil(getFullYear(t), getMonth(t), 1) * MinutesPerDay

\* the conjuncts are the code's, the cheapest first
isPeriodExactMatch(sc, period, date) ==
    CASE sc = "hours" ->
            /\ getMinutes(period) \div 15 = getMinutes(date) \div 15
            /\ getHours(period) = getHours(date)
            /\ isSameDay(period, date)
            /\ isSameMonth(period, date) /\ isSameYear(period, date)
      [] sc = "day" ->
            /\ isSameHour(period, date) /\ isSameDay(period, date)
            /\ isSameMonth(period, date) /\ isSameYear(period, date)
      [] sc \in {"week", "bi-week", "month"} -> isSameDay(period, date)
      [] sc \in {"quarter", "year"} ->
            /\ isSameMonth(period, date) /\ isSameYear(period, date)
            /\ getDate(period) \div 7 = getDate(date) \div 7
      [] sc = "5-years" -> isSameMonth(period, date) /\ isSameYear(period, date)

isPeriodOnSameDay(sc, period, date) ==
    CASE sc \in {"hours", "day", "week", "bi-week", "month"} -> isSameDay(period, date)
      [] sc \in {"quarter", "year"} -> isSameMonth(period, date) /\ isSameYear(period, date)
      [] sc = "5-years" -> isSameYear(period, date)

\* ------------------------------------------------------------------------
\* Inputs: the tasks of the data prop, the clock, the container's width
\* ------------------------------------------------------------------------
Task(s, e) == [start |-> s, end |-> e]

\* a task that starts and ends on no period boundary
TestData == << Task(MkDate(2024, 0, 3, 13, 21), MkDate(2024, 0, 7, 13, 47)) >>

DataSets == { TestData }

\* new Date(): the wall clock, constant during one behaviour
NowSet == { MkDate(2024, 0, 6, 10, 7) }

\* containerRef.current.clientWidth, in px
ClientWidths == { 2400 }

\* ------------------------------------------------------------------------
\* Helpers
\* ------------------------------------------------------------------------
Max(a, b) == IF a >= b THEN a ELSE b
Min(a, b) == IF a <= b THEN a ELSE b

\* JS array read at a 0-based index
At(seq, i) == seq[i + 1]

\* Math.ceil(a / b) for b > 0
CeilDiv(a, b) == -((-a) \div b)

\* Array.prototype.findIndex: the first 0-based index satisfying P, or -1
FindIndex(seq, P(_)) ==
    LET hits == { i \in 1..Len(seq) : P(seq[i]) }
    IN  IF hits = {} THEN -1
        ELSE (CHOOSE i \in hits : \A j \in hits : i <= j) - 1

\* ------------------------------------------------------------------------
\* Window construction (GanttChart.tsx 178-205, 483-508, 753-778)
\* ------------------------------------------------------------------------
\* the loop "tempDate = add(tempDate, -increment); periods.unshift(tempDate)" run
\* n times: the loop's result for n steps is its result for the first n \div 2
\* steps followed (to the left) by its result for the remaining steps, started
\* at the last tempDate
RECURSIVE unshiftEarlier(_, _, _)
unshiftEarlierThan(near, sc, n) ==
    IF near = << >> THEN << >> ELSE unshiftEarlier(Head(near), sc, n) \o near

unshiftEarlier(tempDate, sc, n) ==
    IF n = 0 THEN << >>
    ELSE IF n = 1 THEN << add(tempDate, negIncrement(sc)) >>
    ELSE unshiftEarlierThan(unshiftEarlier(tempDate, sc, n \div 2), sc, n - n \div 2)

\* the loop "tempDate = add(tempDate, increment); periods.push(tempDate)" run n times
RECURSIVE pushLater(_, _, _)
pushLaterThan(near, sc, n) == near \o pushLater(near[Len(near)], sc, n)

pushLater(tempDate, sc, n) ==
    IF n = 0 THEN << >>
    ELSE IF n = 1 THEN << add(tempDate, increment(sc)) >>
    ELSE pushLaterThan(pushLater(tempDate, sc, n \div 2), sc, n - n \div 2)

halfCount == TOTAL_PERIODS \div 2

\* a variant whose second loop runs halfCount times
generatePeriodsBothHalves(sc, alignedCenter) ==
    unshiftEarlier(alignedCenter, sc, halfCount)
        \o << alignedCenter >>
        \o pushLater(alignedCenter, sc, halfCount)

\* a variant whose first loop is the shorter one
generatePeriodsShortHead(sc, alignedCenter) ==
    unshiftEarlier(alignedCenter, sc, halfCount - 1)
        \o << alignedCenter >>
        \o pushLater(alignedCenter, sc, halfCount)

\* halfCount periods before the aligned centre, the centre, halfCount - 1 after
generatePeriods(sc, alignedCenter) ==
    unshiftEarlier(alignedCenter, sc, halfCount)
        \o << alignedCenter >>
        \o pushLater(alignedCenter, sc, halfCount - 1)

\* a variant that splices the head instead of the tail
shiftLeftPeriodsDropsHead(prevPeriods, sc) ==
    IF Len(prevPeriods) = 0 THEN prevPeriods
    ELSE LET periodsArray == SubSeq(prevPeriods, PERIODS_TO_SHIFT + 1, Len(prevPeriods))
         IN  unshiftEarlier(periodsArray[1], sc, PERIODS_TO_SHIFT) \o periodsArray

\* the updater of shiftWindowLeft (GanttChart.tsx 250-286)
shiftLeftPeriods(prevPeriods, sc) ==
    IF Len(prevPeriods) = 0 THEN prevPeriods
    ELSE LET periodsArray == SubSeq(prevPeriods, 1, Len(prevPeriods) - PERIODS_TO_SHIFT)
         IN  unshiftEarlier(periodsArray[1], sc, PERIODS_TO_SHIFT) \o periodsArray

\* a variant whose loop pushes before it advances tempDate
shiftRightPeriodsRepeatsLast(prevPeriods, sc) ==
    IF Len(prevPeriods) = 0 THEN prevPeriods
    ELSE LET periodsArray == SubSeq(prevPeriods, PERIODS_TO_SHIFT + 1, Len(prevPeriods))
             last == periodsArray[Len(periodsArray)]
         IN  periodsArray \o << last >> \o pushLater(last, sc, PERIODS_TO_SHIFT - 1)

\* the updater of shiftWindowRight (GanttChart.tsx 309-340)
shiftRightPeriods(prevPeriods, sc) ==
    IF Len(prevPeriods) = 0 THEN prevPeriods
    ELSE LET periodsArray == SubSeq(prevPeriods, PERIODS_TO_SHIFT + 1, Len(prevPeriods))
         IN  periodsArray \o pushLater(periodsArray[Len(periodsArray)], sc, PERIODS_TO_SHIFT)

\* centerDate (GanttChart.tsx 140-154): the middle of the data range, or now
RECURSIVE minTime(_)
minTime(d) ==
    IF Len(d) = 1 THEN Min(d[1].start, d[1].end)
    ELSE Min(Min(d[1].start, d[1].end), minTime(Tail(d)))
RECURSIVE maxTime(_)
maxTime(d) ==
    IF Len(d) = 1 THEN Max(d[1].start, d[1].end)
    ELSE Max(Max(d[1].start, d[1].end), maxTime(Tail(d)))

\* a variant that centres on the earliest instant of the data
initialCenterDateEarliest(d, today) == IF Len(d) > 0 THEN minTime(d) ELSE today

initialCenterDate(d, today) ==
    IF Len(d) > 0 THEN minTime(d) + (maxTime(d) - minTime(d)) \div 2 ELSE today

\* the dates this model's inputs can centre a window on: the initial centre, the
\* clock, the start of a task
CenterInputs ==
    UNION { { initialCenterDate(d, n) : n \in NowSet } : d \in DataSets }
        \cup NowSet
        \cup UNION { { d[i].start : i \in 1..Len(d) } : d \in DataSets }

\* generatePeriods, tabulated once for these centres
generatedWindows ==
    [sc \in Scales |->
        [c \in { alignDate(sc, d) : d \in CenterInputs } |-> generatePeriods(sc, c)]]

\* a variant that always steps by the increment of the scale the chart mounts with
windowAroundMountScale(sc, alignedCenter) == generatePeriods("day", alignedCenter)

windowAround(sc, alignedCenter) ==
    IF alignedCenter \in DOMAIN generatedWindows[sc]
    THEN generatedWindows[sc][alignedCenter]
    ELSE generatePeriods(sc, alignedCenter)

\* ------------------------------------------------------------------------
\* State
\* ------------------------------------------------------------------------
VARIABLES
    data,            \* the data prop
    scaleProp,       \* the scale prop after useProps
    now,             \* what new Date() returns
    clientWidth,     \* containerRef.current.clientWidth
    centerDate,      \* useState(() => ...), never set again
    scale,           \* useState<PeriodScale>('day')
    allPeriods,      \* useState<Date[]>([]): the window
    visibleRange,    \* useState({ startIndex: 0, endIndex: 50 })
    virtualOffset,   \* virtualOffsetRef.current
    isInitialRender, \* isInitialRender.current
    scrollLeft,      \* containerRef.current.scrollLeft
    scrollEvent,     \* a scroll event is queued for the container
    timers,          \* the setTimeout(..., 0) callbacks not yet run, in order
    scaleChangeCalls, \* the arguments of the calls made to the onScaleChange prop
    effectPending,   \* the [scale, ...] effect has not yet run for this render
    windowScale,     \* history: the scale allPeriods was generated for
    lastOp           \* history: the step taken last

vars == << data, scaleProp, now, clientWidth, centerDate, scale, allPeriods, visibleRange,
           virtualOffset, isInitialRender, scrollLeft, scrollEvent,
           timers, scaleChangeCalls, effectPending, windowScale, lastOp >>

inputs == << data, scaleProp, now, clientWidth, centerDate >>

\* ------------------------------------------------------------------------
\* The scroll container (DOM): chartContent has width allPeriods.length *
\* periodConfig.width rem, and scrollLeft is kept in [0, scrollWidth - clientWidth]
\* ------------------------------------------------------------------------
totalWidthPx(periods, sc) == Len(periods) * periodWidthPx(sc)

maxScrollLeft(periods, sc, c) == Max(0, totalWidthPx(periods, sc) - c)

\* the value the container holds after "scrollLeft = x"
clampScroll(x, periods, sc, c) == Max(0, Min(x, maxScrollLeft(periods, sc, c)))

\* the container after a step: target is the scrollLeft the step wrote (or the old
\* one); the new content width clamps it; a changed position queues a scroll event
Layout(target) ==
    /\ scrollLeft' = clampScroll(target, allPeriods', scale', clientWidth)
    /\ scrollEvent' = (scrollEvent \/ scrollLeft' # scrollLeft)

\* ------------------------------------------------------------------------
\* getTaskStyle (591-611): the cases that return display: 'none'
\* ------------------------------------------------------------------------
\* a variant that also hides a task touching the first or the last period
taskHiddenTouching(periods, task) ==
    IF Len(periods) = 0 THEN TRUE
    ELSE \/ task.start >= periods[Len(periods)]
         \/ task.end <= periods[1]

taskHidden(periods, task) ==
    IF Len(periods) = 0 THEN TRUE
    ELSE \/ task.start > periods[Len(periods)]
         \/ task.end < periods[1]

\* ------------------------------------------------------------------------
\* Deferred callbacks
\* ------------------------------------------------------------------------
Timer(k, i, o, w, b, a, t) ==
    [kind |-> k, idx |-> i, old |-> o, pw |-> w, before |-> b, after |-> a, at |-> t,
     seen |-> 0, vo |-> 0, stale |-> FALSE]

\* history only: the callbacks that were queued for a window that is now replaced
markStale(ts) == [i \in 1..Len(ts) |-> [ts[i] EXCEPT !.stale = TRUE]]

\* ------------------------------------------------------------------------
\* Mount
\* ------------------------------------------------------------------------
\* defaultProps (83-88), the part the model reads
defaultProps == [scale |-> "day"]

\* the state after the first render with a data prop drawn from dataSets and a
\* scale prop drawn from scaleProps
MountedWithProps(dataSets, scaleProps) ==
    /\ data \in dataSets
    /\ scaleProp \in scaleProps
    /\ now \in NowSet
    /\ clientWidth \in ClientWidths
    /\ centerDate = initialCenterDate(data, now)
    /\ scale = "day"
    /\ allPeriods = << >>
    /\ visibleRange = [startIndex |-> 0, endIndex |-> 50]
    /\ virtualOffset = 0
    /\ isInitialRender = TRUE
    /\ scrollLeft = 0
    /\ scrollEvent = FALSE
    /\ timers = << >>
    /\ scaleChangeCalls = << >>
    /\ effectPending = TRUE
    /\ windowScale = "day"
    /\ lastOp = "mount"

\* the scale prop omitted: useProps fills it in from defaultProps
MountedWith(dataSets) == MountedWithProps(dataSets, { defaultProps.scale })

Init == MountedWith(DataSets)

\* ------------------------------------------------------------------------
\* useEffect(..., [scale, centerDate, periodConfig, TOTAL_PERIODS])  (173-230)
\* ------------------------------------------------------------------------
\* a variant that scrolls to the centre inside the effect, with no setTimeout
initializeWindowScrollsAtOnce ==
    /\ effectPending
    /\ allPeriods' = windowAround(scale, alignDate(scale, centerDate))
    /\ virtualOffset' = 0
    /\ visibleRange' = [startIndex |-> Max(0, halfCount - 25), endIndex |-> halfCount + 25]
    /\ timers' = markStale(timers)
    /\ isInitialRender' = FALSE
    /\ effectPending' = FALSE
    /\ windowScale' = scale
    /\ lastOp' = "initialize"
    /\ UNCHANGED << inputs, scaleChangeCalls, scale >>
    /\ Layout((2 * halfCount * periodWidthPx(scale) - clientWidth) \div 2)

initializeWindow ==
    /\ effectPending
    /\ LET alignedCenterDate == alignDate(scale, centerDate)
           periods == windowAround(scale, alignedCenterDate)
           centerIndex == Len(periods) \div 2
       IN  /\ allPeriods' = periods
           /\ virtualOffset' = 0
           /\ visibleRange' = [startIndex |-> Max(0, centerIndex - 25),
                               endIndex |-> centerIndex + 25]
           /\ timers' = Append(markStale(timers),
                               Timer("init", centerIndex, 0, periodWidthPx(scale), 0, 0, 0))
    /\ isInitialRender' = FALSE
    /\ effectPending' = FALSE
    /\ windowScale' = scale
    /\ lastOp' = "initialize"
    /\ UNCHANGED << inputs, scaleChangeCalls, scale >>
    /\ Layout(scrollLeft)

\* ------------------------------------------------------------------------
\* handleScroll (362-401) with shiftWindowLeft (249-305), shiftWindowRight (308-359)
\* ------------------------------------------------------------------------
\* a variant that compares with <=
atOrBelowLeftThreshold(s, total) == 100 * s <= total * SCROLL_THRESHOLD_PCT

\* scrollLeft < totalWidthPx * SCROLL_THRESHOLD
belowLeftThreshold(s, total) == 100 * s < total * SCROLL_THRESHOLD_PCT

\* scrollLeft > totalWidthPx * (1 - SCROLL_THRESHOLD) - containerWidth
aboveRightThreshold(s, total, c) == 100 * (s + c) > total * (100 - SCROLL_THRESHOLD_PCT)

\* model bound: the window stays within MaxShifts shifts of its generation and at
\* most MaxTimers callbacks are pending
mayShift(newOffset) ==
    /\ Len(timers) < MaxTimers
    /\ newOffset <= MaxShifts * PERIODS_TO_SHIFT
    /\ -newOffset <= MaxShifts * PERIODS_TO_SHIFT

\* history only: the period under the left edge of the viewport
periodAtPixel(periods, s, pw) ==
    IF s \div pw < Len(periods) THEN At(periods, s \div pw) ELSE -1

shiftWindowLeft(s) ==
    /\ mayShift(virtualOffset - PERIODS_TO_SHIFT)
    /\ allPeriods' = shiftLeftPeriods(allPeriods, scale)
    /\ virtualOffset' = IF Len(allPeriods) = 0 THEN virtualOffset
                        ELSE virtualOffset - PERIODS_TO_SHIFT
    /\ LET oldScrollLeft == s
           pw == periodWidthPx(scale)
       IN  timers' = Append(timers,
                [Timer("shiftLeft", 0, oldScrollLeft, pw, 0, 0, 0)
                    EXCEPT !.seen = periodAtPixel(allPeriods, oldScrollLeft, pw),
                           !.vo = virtualOffset])
    /\ lastOp' = "shiftLeft"
    /\ UNCHANGED visibleRange

shiftWindowRight(s) ==
    /\ mayShift(virtualOffset + PERIODS_TO_SHIFT)
    /\ allPeriods' = shiftRightPeriods(allPeriods, scale)
    /\ virtualOffset' = IF Len(allPeriods) = 0 THEN virtualOffset
                        ELSE virtualOffset + PERIODS_TO_SHIFT
    /\ LET oldScrollLeft == s
           pw == periodWidthPx(scale)
       IN  timers' = Append(timers,
                [Timer("shiftRight", 0, oldScrollLeft, pw, 0, 0, 0)
                    EXCEPT !.seen = periodAtPixel(allPeriods, oldScrollLeft, pw),
                           !.vo = virtualOffset])
    /\ lastOp' = "shiftRight"
    /\ UNCHANGED visibleRange

\* the visible range of the last branch of handleScroll (393-400)
rangeOfScroll(s, c, pw) ==
    [startIndex |-> s \div pw, endIndex |-> s \div pw + CeilDiv(c, pw)]

\* the body of handleScroll, reading the position s of the container
scrollHandler(s) ==
    /\ scrollEvent' = FALSE
    /\ scrollLeft' = s
    /\ IF isInitialRender
       THEN /\ lastOp' = "ignoredScroll"
            /\ UNCHANGED << allPeriods, virtualOffset, timers, visibleRange >>
       ELSE LET containerWidth == clientWidth
                periodWidthPxNow == periodWidthPx(scale)
                total == totalWidthPx(allPeriods, scale)
            IN  IF belowLeftThreshold(s, total) THEN shiftWindowLeft(s)
                ELSE IF aboveRightThreshold(s, total, containerWidth)
                     THEN shiftWindowRight(s)
                ELSE /\ visibleRange' = rangeOfScroll(s, containerWidth, periodWidthPxNow)
                     /\ lastOp' = "visibleRange"
                     /\ UNCHANGED << allPeriods, virtualOffset, timers >>
    /\ UNCHANGED << inputs, scaleChangeCalls, scale, isInitialRender, effectPending, windowScale >>

\* the scroll event queued by a scroll position the program changed
handleScroll ==
    /\ scrollEvent
    /\ ~effectPending
    /\ scrollHandler(scrollLeft)

userMayAct ==
    /\ ~effectPending
    /\ ~scrollEvent
    /\ \A i \in 1..Len(timers) : timers[i].kind \in {"shiftLeft", "shiftRight"}

\* ------------------------------------------------------------------------
\* The user scrolls the container to x: the scroll event of the gesture
\* ------------------------------------------------------------------------
\* positions just inside and just outside the two trigger zones
UserPositions(sc, c) ==
    LET pw == periodWidthPx(sc)
        total == TOTAL_PERIODS * pw
        left == (total * SCROLL_THRESHOLD_PCT) \div 100
        right == (total * (100 - SCROLL_THRESHOLD_PCT)) \div 100 - c
    IN  { x \in { left - 1, left, right, right + 1 } : x >= 0 /\ x <= total - c }

userScroll(x) ==
    /\ userMayAct
    /\ ~isInitialRender
    /\ x \in UserPositions(scale, clientWidth)
    /\ x # scrollLeft
    /\ scrollHandler(x)

\* ------------------------------------------------------------------------
\* scrollToToday (404-583)
\* ------------------------------------------------------------------------
Abs(x) == IF x < 0 THEN -x ELSE x

\* 0-based indices of the periods of the same bucket as date (425-427)
relevantIndices(periods, sc, date) ==
    { i \in 0..(Len(periods) - 1) : isPeriodOnSameDay(sc, At(periods, i), date) }

\* a variant that takes the first period of the bucket
closestRelevantIndexFirst(periods, sc, date) ==
    IF relevantIndices(periods, sc, date) = {} THEN -1
    ELSE CHOOSE i \in relevantIndices(periods, sc, date) :
            \A j \in relevantIndices(periods, sc, date) : i <= j

\* the closest period of the bucket, the earliest on ties (429-443), or -1
closestRelevantIndex(periods, sc, date) ==
    LET rel == relevantIndices(periods, sc, date)
    IN  IF rel = {} THEN -1
        ELSE CHOOSE i \in rel :
                \A j \in rel :
                    \/ Abs(At(periods, i) - date) < Abs(At(periods, j) - date)
                    \/ (Abs(At(periods, i) - date) = Abs(At(periods, j) - date) /\ i <= j)

\* todayIndex after lines 417-444
findTodayIndex(periods, sc, today) ==
    LET alignedToday == alignDate(sc, today)
        exact == FindIndex(periods, LAMBDA p : isPeriodExactMatch(sc, p, alignedToday))
    IN  IF exact # -1 THEN exact ELSE closestRelevantIndex(periods, sc, today)

edgeThreshold == (TOTAL_PERIODS * EDGE_THRESHOLD_PCT) \div 100

\* a variant that regenerates whenever today is absent or near an edge
needsRegenerationNearEdge(periods, sc, today, todayIndex) ==
    \/ todayIndex = -1
    \/ todayIndex < edgeThreshold
    \/ todayIndex > TOTAL_PERIODS - edgeThreshold

\* a variant that regenerates on every jump
needsRegenerationAlways(periods, sc, today, todayIndex) == TRUE

\* needsRegeneration after lines 446-479
needsRegeneration(periods, sc, today, todayIndex) ==
    IF todayIndex = -1 THEN TRUE
    ELSE LET isNearEdge == todayIndex < edgeThreshold
                            \/ todayIndex > TOTAL_PERIODS - edgeThreshold
             rel == relevantIndices(periods, sc, today)
             hasEarlierPeriodsOnSameDay ==
                todayIndex > 0 /\ \E i \in rel : i < todayIndex
             hasLaterPeriodsOnSameDay ==
                todayIndex < Len(periods) - 1 /\ \E i \in rel : i > todayIndex
         IN  IF ~isNearEdge THEN FALSE
             ELSE ~(\/ (todayIndex < edgeThreshold /\ hasEarlierPeriodsOnSameDay)
                    \/ (todayIndex > TOTAL_PERIODS - edgeThreshold
                            /\ hasLaterPeriodsOnSameDay))

\* Math.max(0, exactPosition - clientWidth / 2) of lines 531-550 and 560-579, in
\* whole px: exactPosition = (index + (at - before) / (after - before)) * pw when
\* there is a next period, index * pw otherwise
centeredTarget(index, hasNext, before, after, at, pw, c) ==
    LET totalTimeDiff == after - before
        currentTimeDiff == at - before
    IN  IF hasNext /\ totalTimeDiff > 0
        THEN LET num == 2 * (index * pw * totalTimeDiff + currentTimeDiff * pw)
                            - c * totalTimeDiff
             IN  IF num <= 0 THEN 0 ELSE num \div (2 * totalTimeDiff)
        ELSE Max(0, (2 * index * pw - c) \div 2)

scrollToToday ==
    /\ userMayAct
    /\ UNCHANGED << inputs, scaleChangeCalls, scale, isInitialRender, effectPending >>
    /\ LET today == now
           todayIndex == findTodayIndex(allPeriods, scale, today)
       IN  IF needsRegeneration(allPeriods, scale, today, todayIndex)
           THEN LET alignedToday == alignDate(scale, today)
                    newPeriods == windowAround(scale, alignedToday)
                    pw == periodWidthPx(scale)
                    visibleCount == CeilDiv(clientWidth, pw)
                IN  /\ Len(timers) < MaxTimers
                    /\ virtualOffset' = 0
                    /\ allPeriods' = newPeriods
                    /\ visibleRange' =
                         [startIndex |-> Max(0, halfCount - visibleCount \div 2),
                          endIndex |-> halfCount + CeilDiv(visibleCount, 2)]
                    /\ timers' = Append(markStale(timers),
                         Timer("today", halfCount, 0, pw,
                               At(newPeriods, halfCount),
                               IF halfCount + 1 < Len(newPeriods)
                                  THEN At(newPeriods, halfCount + 1) ELSE -1,
                               today))
                    /\ windowScale' = scale
                    /\ lastOp' = "regenerateToday"
                    /\ Layout(scrollLeft)
           ELSE LET hasNext == todayIndex + 1 < Len(allPeriods)
                IN  /\ lastOp' = "scrollToToday"
                    /\ UNCHANGED << allPeriods, virtualOffset, visibleRange, timers,
                                    windowScale >>
                    /\ Layout(centeredTarget(todayIndex, hasNext,
                                  At(allPeriods, todayIndex),
                                  IF hasNext THEN At(allPeriods, todayIndex + 1) ELSE -1,
                                  today, periodWidthPx(scale), clientWidth))

\* ------------------------------------------------------------------------
\* scrollToTask (743-819)
\* ------------------------------------------------------------------------
\* the index the deferred callback scrolls to (797-813), or -1
taskScrollIndex(newPeriods, sc, taskStart) ==
    LET taskStartIndex ==
            FindIndex(newPeriods, LAMBDA p : isPeriodExactMatch(sc, p, taskStart))
    IN  IF taskStartIndex # -1 THEN taskStartIndex
        ELSE FindIndex(newPeriods, LAMBDA p : p > taskStart)

\* taskScrollIndex, tabulated once for the tasks of the model's data sets
taskScrollIndices ==
    [sc \in Scales |->
        [st \in UNION { { d[i].start : i \in 1..Len(d) } : d \in DataSets } |->
            taskScrollIndex(windowAround(sc, alignDate(sc, st)), sc, st)]]

\* the index the lookup of scrollToToday finds the start of task at in the
\* current window, or -1
taskIndexNow(task) == findTodayIndex(allPeriods, scale, task.start)

taskAwayFromEdges(task) ==
    /\ taskIndexNow(task) >= edgeThreshold
    /\ taskIndexNow(task) <= TOTAL_PERIODS - edgeThreshold

\* a variant that follows the policy of scrollToToday: a start found away from the
\* edges only moves the scroll position
scrollToTaskReusesWindow(task) ==
    /\ userMayAct
    /\ Len(timers) < MaxTimers
    /\ UNCHANGED << inputs, scaleChangeCalls, scale, isInitialRender, effectPending >>
    /\ IF taskAwayFromEdges(task)
       THEN /\ UNCHANGED << allPeriods, virtualOffset, visibleRange, timers, windowScale >>
            /\ lastOp' = "scrollToTask"
            /\ Layout(Max(0, (taskIndexNow(task) - 1) * periodWidthPx(scale)))
       ELSE /\ virtualOffset' = 0
            /\ allPeriods' = windowAround(scale, alignDate(scale, task.start))
            /\ visibleRange' =
                 [startIndex |-> Max(0, halfCount - CeilDiv(clientWidth, periodWidthPx(scale)) \div 2),
                  endIndex |-> halfCount + CeilDiv(CeilDiv(clientWidth, periodWidthPx(scale)), 2)]
            /\ timers' = Append(markStale(timers),
                 Timer("task", taskScrollIndices[scale][task.start],
                       0, periodWidthPx(scale), 0, 0, task.start))
            /\ windowScale' = scale
            /\ lastOp' = "regenerateTask"
            /\ Layout(scrollLeft)

scrollToTask(task) ==
    /\ userMayAct
    /\ Len(timers) < MaxTimers
    /\ LET pw == periodWidthPx(scale)
           containerWidth == clientWidth
           newPeriods == windowAround(scale, alignDate(scale, task.start))
           visibleCount == CeilDiv(containerWidth, pw)
       IN  /\ virtualOffset' = 0
           /\ allPeriods' = newPeriods
           /\ visibleRange' =
                [startIndex |-> Max(0, halfCount - visibleCount \div 2),
                 endIndex |-> halfCount + CeilDiv(visibleCount, 2)]
           /\ timers' = Append(markStale(timers),
                Timer("task", taskScrollIndices[scale][task.start],
                      0, pw, 0, 0, task.start))
    /\ windowScale' = scale
    /\ lastOp' = "regenerateTask"
    /\ UNCHANGED << inputs, scaleChangeCalls, scale, isInitialRender, effectPending >>
    /\ Layout(scrollLeft)

\* ------------------------------------------------------------------------
\* The scale selector (868-879): setInternalScale, the render with the new scale;
\* the effect of that render is initializeWindow
\* ------------------------------------------------------------------------
selectScale(newScale) ==
    /\ userMayAct
    /\ timers = << >>
    /\ ~isInitialRender
    /\ newScale # scale
    /\ scale' = newScale
    /\ effectPending' = TRUE
    /\ lastOp' = "selectScale"
    /\ UNCHANGED << inputs, scaleChangeCalls, allPeriods, visibleRange, virtualOffset, isInitialRender,
                    timers, windowScale >>
    /\ Layout(scrollLeft)

\* ------------------------------------------------------------------------
\* A zero-delay callback runs (220-226, 293-304, 347-358, 527-554, 795-816)
\* ------------------------------------------------------------------------
\* a variant whose task callback centres the period it found
timerTargetCentresTask(t, c) ==
    CASE t.kind = "init"       -> (2 * t.idx * t.pw - c) \div 2
      [] t.kind = "shiftLeft"  -> t.old + PERIODS_TO_SHIFT * t.pw
      [] t.kind = "shiftRight" -> t.old - PERIODS_TO_SHIFT * t.pw
      [] t.kind = "today"      ->
            centeredTarget(t.idx, t.after # -1, t.before, t.after, t.at, t.pw, c)
      [] t.kind = "task"       -> Max(0, (2 * t.idx * t.pw - c) \div 2)

timerTarget(t, c) ==
    CASE t.kind = "init"       -> (2 * t.idx * t.pw - c) \div 2
      [] t.kind = "shiftLeft"  -> t.old + PERIODS_TO_SHIFT * t.pw
      [] t.kind = "shiftRight" -> t.old - PERIODS_TO_SHIFT * t.pw
      [] t.kind = "today"      ->
            centeredTarget(t.idx, t.after # -1, t.before, t.after, t.at, t.pw, c)
      [] t.kind = "task"       -> Max(0, (t.idx - 1) * t.pw)

timerRange(t, prev) ==
    CASE t.kind = "shiftLeft" ->
            [startIndex |-> prev.startIndex + PERIODS_TO_SHIFT,
             endIndex |-> prev.endIndex + PERIODS_TO_SHIFT]
      [] t.kind = "shiftRight" ->
            [startIndex |-> prev.startIndex - PERIODS_TO_SHIFT,
             endIndex |-> prev.endIndex - PERIODS_TO_SHIFT]
      [] OTHER -> prev

\* history only: the name of the step that runs callback t with n callbacks
\* pending; the deferred phase of a shift is "compensate..." when the shift's
\* window is still the current one and no other callback is pending, "late..."
\* otherwise
deferredOp(t, n) ==
    CASE t.kind = "init"       -> "deferredInit"
      [] t.kind = "today"      -> "deferredToday"
      [] t.kind = "task"       -> "deferredTask"
      [] t.kind = "shiftLeft"  -> IF ~t.stale /\ n = 1 THEN "compensateLeft" ELSE "lateLeft"
      [] t.kind = "shiftRight" -> IF ~t.stale /\ n = 1 THEN "compensateRight" ELSE "lateRight"

runTimer ==
    /\ timers # << >>
    /\ ~effectPending
    /\ UNCHANGED << inputs, scaleChangeCalls, scale, allPeriods, virtualOffset, isInitialRender,
                    effectPending, windowScale >>
    /\ LET t == Head(timers)
       IN  /\ timers' = Tail(timers)
           /\ visibleRange' = timerRange(t, visibleRange)
           /\ lastOp' = deferredOp(t, Len(timers))
           /\ IF t.kind = "task" /\ t.idx = -1
              THEN Layout(scrollLeft)
              ELSE Layout(timerTarget(t, clientWidth))

\* ------------------------------------------------------------------------
\* Specification
\* ------------------------------------------------------------------------
Next ==
    \/ initializeWindow
    \/ handleScroll
    \/ \E x \in UserPositions(scale, clientWidth) : userScroll(x)
    \/ scrollToToday
    \/ \E i \in 1..Len(data) : scrollToTask(data[i])
    \/ \E sc \in Scales : selectScale(sc)
    \/ runTimer

Spec == Init /\ [][Next]_vars

\* ------------------------------------------------------------------------
\* Mount with any data prop: no task, one task or two tasks over MountInstants,
\* followed by the initialization, its callback, scroll events and scale changes
\* ------------------------------------------------------------------------
MountInstants ==
    { MkDate(2023, 11, 31, 0, 0), MkDate(2024, 0, 3, 13, 21),
      MkDate(2024, 0, 7, 13, 47), MkDate(2024, 2, 31, 23, 59) }

MountTasks == { Task(a, b) : a, b \in MountInstants }

MountDataSets ==
    { << >> }
        \cup { << t >> : t \in { x \in MountTasks : x.start <= x.end } }
        \cup { << t, u >> : t, u \in { x \in MountTasks : x.start <= x.end } }

MountInit == MountedWith(MountDataSets)

MountNext ==
    \/ initializeWindow
    \/ runTimer
    \/ handleScroll
    \/ \E sc \in Scales : selectScale(sc)

MountSpec == MountInit /\ [][MountNext]_vars

TypeOK ==
    /\ scale \in Scales
    /\ Len(allPeriods) \in {0, TOTAL_PERIODS}
    /\ Len(timers) <= MaxTimers

\* ------------------------------------------------------------------------
\* Properties
\* ------------------------------------------------------------------------
\* the step just taken built or shifted the window
windowChanged ==
    lastOp \in {"initialize", "shiftLeft", "shiftRight", "regenerateToday", "regenerateTask"}

isShift(t) == t.kind \in {"shiftLeft", "shiftRight"}

\* C1: after every initialization, shift and regeneration, under every scale, the
\* window is strictly increasing and each period is its predecessor plus one
\* increment of the scale the window was generated for.
C1_WindowContiguous ==
    windowChanged =>
        \A i \in 1..(Len(allPeriods) - 1) :
            /\ allPeriods[i] < allPeriods[i + 1]
            /\ allPeriods[i + 1] = add(allPeriods[i], increment(windowScale))

\* a month-increment window that was regenerated and then shifted
C1_Witness ==
    /\ scale = "5-years"
    /\ lastOp = "shiftLeft"
    /\ Len(timers) = 2
    /\ timers[1].kind = "task"
    /\ Len(allPeriods) = TOTAL_PERIODS

\* the places of old whose period is not in new
dropped(old, new) ==
    LET kept == { new[j] : j \in 1..Len(new) }
    IN  { i \in 1..Len(old) : old[i] \notin kept }

\* C2: once initialized the window holds exactly TOTAL_PERIODS periods; a shift
\* left drops exactly the last PERIODS_TO_SHIFT periods and brings in as many new
\* ones at the head, a shift right drops the first PERIODS_TO_SHIFT and brings in
\* as many at the tail; every generation builds TOTAL_PERIODS periods.
C2_Step ==
    /\ ~isInitialRender' => Len(allPeriods') = TOTAL_PERIODS
    /\ lastOp' = "shiftLeft" =>
        /\ dropped(allPeriods, allPeriods')
                = (Len(allPeriods) - PERIODS_TO_SHIFT + 1)..Len(allPeriods)
        /\ dropped(allPeriods', allPeriods) = 1..PERIODS_TO_SHIFT
    /\ lastOp' = "shiftRight" =>
        /\ dropped(allPeriods, allPeriods') = 1..PERIODS_TO_SHIFT
        /\ dropped(allPeriods', allPeriods)
                = (Len(allPeriods') - PERIODS_TO_SHIFT + 1)..Len(allPeriods')
C2_WindowLength == [][C2_Step]_vars

\* after a scale change and a regeneration, a shift
C2_Witness ==
    /\ scale = "month"
    /\ lastOp = "shiftRight"
    /\ Len(timers) = 2
    /\ timers[1].kind = "today"
    /\ Len(allPeriods) = TOTAL_PERIODS

\* C3: a shift left moves every kept period PERIODS_TO_SHIFT places up, fills the
\* head with the periods that precede the old first period one increment apart,
\* and lowers virtualOffset by PERIODS_TO_SHIFT; a shift right is the mirror image.
C3_Step ==
    LET n == Len(allPeriods)
        k == PERIODS_TO_SHIFT
    IN  /\ lastOp' = "shiftLeft" =>
            /\ n > 0 /\ Len(allPeriods') = n
            /\ \A i \in 0..(n - k - 1) : At(allPeriods', i + k) = At(allPeriods, i)
            /\ \A i \in 0..(k - 1) :
                    add(At(allPeriods', i), increment(scale)) = At(allPeriods', i + 1)
            /\ virtualOffset' = virtualOffset - k
        /\ lastOp' = "shiftRight" =>
            /\ n > 0 /\ Len(allPeriods') = n
            /\ \A i \in 0..(n - k - 1) : At(allPeriods', i) = At(allPeriods, i + k)
            /\ \A i \in (n - k)..(n - 1) :
                    At(allPeriods', i) = add(At(allPeriods', i - 1), increment(scale))
            /\ virtualOffset' = virtualOffset + k
C3_Shift == [][C3_Step]_vars

\* both shifts have run
C3_Witness ==
    /\ lastOp = "shiftRight"
    /\ Len(timers) = 2
    /\ timers[1].kind = "shiftLeft"
    /\ virtualOffset = timers[2].vo + PERIODS_TO_SHIFT

\* the last two pending callbacks are those of a shift of kind first followed by a
\* shift of kind second, with no regeneration since
shiftedTwice(first, second) ==
    /\ lastOp = second
    /\ Len(timers) >= 2
    /\ timers[Len(timers) - 1].kind = first /\ ~timers[Len(timers) - 1].stale
    /\ timers[Len(timers)].kind = second /\ ~timers[Len(timers)].stale

\* C4: under every scale, a shift left directly followed by a shift right (and a
\* shift right directly followed by a shift left) gives back the same dates in the
\* same order, and virtualOffset is back at the value it had before the two.
C4_Step ==
    /\ lastOp' = "shiftLeft" => shiftRightPeriods(allPeriods', scale) = allPeriods
    /\ lastOp' = "shiftRight" => shiftLeftPeriods(allPeriods', scale) = allPeriods
    /\ (shiftedTwice("shiftLeft", "shiftRight") \/ shiftedTwice("shiftRight", "shiftLeft"))' =>
            virtualOffset' = timers'[Len(timers') - 1].vo
C4_RoundTrip == [][C4_Step]_vars

\* the month-increment scale: a shift left directly followed by a shift right
C4_Witness ==
    /\ scale = "5-years"
    /\ shiftedTwice("shiftLeft", "shiftRight")

\* a step that runs the deferred phase of a shift
runsShiftTimer ==
    /\ timers # << >>
    /\ timers' = Tail(timers)
    /\ isShift(Head(timers))
    /\ lastOp' = deferredOp(Head(timers), Len(timers))

\* C5: the deferred phase of a shift left leaves scrollLeft at the position read
\* when the shift was triggered plus PERIODS_TO_SHIFT period widths and raises both
\* ends of visibleRange by PERIODS_TO_SHIFT; a shift right mirrors this.
C5_Step ==
    runsShiftTimer =>
        LET t == Head(timers)
            d == IF t.kind = "shiftLeft" THEN PERIODS_TO_SHIFT ELSE -PERIODS_TO_SHIFT
        IN  /\ scrollLeft' = t.old + d * t.pw
            /\ visibleRange' = [startIndex |-> visibleRange.startIndex + d,
                                endIndex |-> visibleRange.endIndex + d]
C5_Compensation == [][C5_Step]_vars

\* C6: a shift is seamless when the container is no wider than the window: the
\* compensated scroll position is inside the scrollable range, no period that was
\* visible when the shift was triggered is among those removed, and the period
\* under the left edge of the viewport is the same before and after.
C6_Step ==
    (runsShiftTimer /\ lastOp' \in {"compensateLeft", "compensateRight"}
        /\ clientWidth <= totalWidthPx(allPeriods, scale)) =>
        LET t == Head(timers)
            firstVisible == t.old \div t.pw
            lastVisible == (t.old + clientWidth - 1) \div t.pw
        IN  /\ timerTarget(t, clientWidth) >= 0
            /\ timerTarget(t, clientWidth) <= maxScrollLeft(allPeriods, scale, clientWidth)
            /\ t.kind = "shiftLeft" => lastVisible < Len(allPeriods) - PERIODS_TO_SHIFT
            /\ t.kind = "shiftRight" => firstVisible >= PERIODS_TO_SHIFT
            /\ periodAtPixel(allPeriods', scrollLeft', t.pw) = t.seen
C6_Seamless == [][C6_Step]_vars

\* a step that handles a scroll event
handlesScroll == lastOp' \in {"shiftLeft", "shiftRight", "visibleRange", "ignoredScroll"}

\* C7: the scroll event caused by the compensating scroll write of a shift starts
\* no further shift.
C7_Step ==
    (lastOp \in {"compensateLeft", "compensateRight"} /\ scrollEvent /\ handlesScroll) =>
        lastOp' = "visibleRange"
C7_OneShift == [][C7_Step]_vars

\* C8: a scroll event handled after initialization at position s shifts left
\* without touching visibleRange if s < 0.1 T, else shifts right without touching
\* visibleRange if s > 0.9 T - c, else sets visibleRange to
\* {floor(s / w), floor(s / w) + ceil(c / w)} and shifts nothing.
C8_Step ==
    (handlesScroll /\ ~isInitialRender) =>
        LET s == scrollLeft'
            c == clientWidth
            w == periodWidthPx(scale)
            T == Len(allPeriods) * w
        IN  IF 10 * s < T
            THEN /\ lastOp' = "shiftLeft"
                 /\ virtualOffset' = virtualOffset - PERIODS_TO_SHIFT
                 /\ visibleRange' = visibleRange
            ELSE IF 10 * s > 9 * T - 10 * c
            THEN /\ lastOp' = "shiftRight"
                 /\ virtualOffset' = virtualOffset + PERIODS_TO_SHIFT
                 /\ visibleRange' = visibleRange
            ELSE /\ lastOp' = "visibleRange"
                 /\ allPeriods' = allPeriods /\ virtualOffset' = virtualOffset
                 /\ timers' = timers
                 /\ visibleRange' = [startIndex |-> s \div w,
                                     endIndex |-> s \div w + CeilDiv(c, w)]
C8_ScrollDecision == [][C8_Step]_vars

\* a scroll event handled exactly on the left threshold: no shift
C8_Witness ==
    /\ lastOp = "visibleRange"
    /\ 10 * scrollLeft = totalWidthPx(allPeriods, scale)

\* C9: no shift and no regeneration starts while the deferred phase of an earlier
\* shift or regeneration is pending.
C9_Step ==
    lastOp' \in {"shiftLeft", "shiftRight", "regenerateToday", "regenerateTask"} =>
        \A i \in 1..Len(timers) : timers[i].kind = "init"
C9_NoOverlap == [][C9_Step]_vars

\* C10: the deferred phase of a shift whose window a regeneration has replaced
\* changes neither scrollLeft nor visibleRange.
C10_Step ==
    (runsShiftTimer /\ Head(timers).stale) =>
        /\ scrollLeft' = scrollLeft
        /\ visibleRange' = visibleRange
C10_StaleDropped == [][C10_Step]_vars

\* the kind of deferred callback each window-changing step queues
deferredKindOf(op) ==
    CASE op = "initialize"      -> "init"
      [] op = "shiftLeft"       -> "shiftLeft"
      [] op = "shiftRight"      -> "shiftRight"
      [] op = "regenerateToday" -> "today"
      [] op = "regenerateTask"  -> "task"

\* C11: a step that replaces or splices the window (initialization, shift left,
\* shift right, regeneration for today or for a task) writes no scroll position
\* itself: it queues one deferred callback, and scrollLeft is what the container
\* held (clamped to the new content) or, for a shift, the position the handler
\* read; the callback's write happens in a later step that leaves the window as
\* it is.
C11_Step ==
    /\ (allPeriods' # allPeriods \/ Len(timers') > Len(timers)) =>
        /\ windowChanged'
        /\ Len(timers') = Len(timers) + 1
        /\ timers'[Len(timers')].kind = deferredKindOf(lastOp')
        /\ scrollLeft' = IF lastOp' \in {"shiftLeft", "shiftRight"}
                         THEN timers'[Len(timers')].old
                         ELSE clampScroll(scrollLeft, allPeriods', scale', clientWidth)
    /\ (timers # << >> /\ timers' = Tail(timers)) =>
        /\ allPeriods' = allPeriods
        /\ virtualOffset' = virtualOffset
        /\ Len(allPeriods) = TOTAL_PERIODS
C11_TwoPhase == [][C11_Step]_vars

\* the deferred write of a regeneration for a task has run, after a scale change
C11_Witness ==
    /\ lastOp = "deferredTask"
    /\ scale = "quarter"
    /\ timers = << >>
    /\ Len(allPeriods) = TOTAL_PERIODS

\* a step that runs the effect initializing the window
runsInitialization == effectPending /\ ~effectPending'

\* a step that runs the deferred callback of kind k
runsTimerOfKind(k) ==
    /\ timers # << >>
    /\ timers' = Tail(timers)
    /\ Head(timers).kind = k

\* C12: initialization around centerDate under the current scale builds 200
\* periods with the aligned centre at index 100 (100 periods before it, 99 after
\* it), resets virtualOffset to 0 and visibleRange to {75, 125}; its deferred
\* phase asks for the scroll position 100 * periodWidthPx - clientWidth / 2.
C12_Step ==
    /\ runsInitialization =>
        /\ Len(allPeriods') = TOTAL_PERIODS
        /\ At(allPeriods', 100) = alignDate(scale, centerDate)
        /\ Cardinality({ i \in 0..199 : At(allPeriods', i) < alignDate(scale, centerDate) }) = 100
        /\ Cardinality({ i \in 0..199 : At(allPeriods', i) > alignDate(scale, centerDate) }) = 99
        /\ virtualOffset' = 0
        /\ visibleRange' = [startIndex |-> 75, endIndex |-> 125]
    /\ runsTimerOfKind("init") =>
        scrollLeft' = clampScroll((2 * 100 * periodWidthPx(windowScale) - clientWidth) \div 2,
                                  allPeriods, scale, clientWidth)
C12_Initialize == [][C12_Step]_vars

\* the deferred phase of an initialization under the month-increment scale has run
C12_Witness ==
    /\ lastOp = "deferredInit"
    /\ scale = "5-years"
    /\ virtualOffset = 0
    /\ 2 * scrollLeft = 2 * 100 * periodWidthPx(scale) - clientWidth

\* the start and end instants of all tasks of the data prop
dataInstants == { data[i].start : i \in 1..Len(data) } \cup { data[i].end : i \in 1..Len(data) }

earliestInstant == CHOOSE a \in dataInstants : \A b \in dataInstants : a <= b

latestInstant == CHOOSE a \in dataInstants : \A b \in dataInstants : a >= b

\* C13: the centre date is the midpoint between the earliest and the latest
\* start or end instant of the tasks, or the clock when there is no task; in the
\* window built by the initialization every task whose interval contains the
\* centre date is shown (getTaskStyle does not hide it).
C13_MountCentre ==
    /\ centerDate = IF data = << >> THEN now
                    ELSE earliestInstant + (latestInstant - earliestInstant) \div 2
    /\ lastOp \in {"initialize", "deferredInit"} =>
        \A i \in 1..Len(data) :
            (data[i].start <= centerDate /\ centerDate <= data[i].end) =>
                ~taskHidden(allPeriods, data[i])

\* the first window after a mount with two tasks: one contains the centre date and
\* is shown, the other lies outside the window and is hidden
C13_Witness ==
    /\ lastOp = "initialize"
    /\ scale = "day" /\ windowScale = "day"
    /\ Len(data) = 2
    /\ data[1].start < centerDate /\ centerDate < data[1].end
    /\ ~taskHidden(allPeriods, data[1])
    /\ taskHidden(allPeriods, data[2])

\* the adjacent periods of window are all (some) one increment of sc apart
allSpacedBy(window, sc) ==
    \A i \in 1..(Len(window) - 1) : window[i + 1] = add(window[i], increment(sc))

someSpacedBy(window, sc) ==
    \E i \in 1..(Len(window) - 1) : window[i + 1] = add(window[i], increment(sc))

\* a step that runs the initialization following a switch of the scale
runsScaleSwitch == runsInitialization /\ windowScale # scale

\* C14 as stated: after the initialization that follows a scale switch the window
\* has 200 periods, all spaced by the new scale's increment and none by the old
\* scale's, virtualOffset is 0 and visibleRange is reset to the centre.
C14_AsStated_Step ==
    runsScaleSwitch =>
        /\ Len(allPeriods') = TOTAL_PERIODS
        /\ allSpacedBy(allPeriods', scale)
        /\ ~someSpacedBy(allPeriods', windowScale)
        /\ virtualOffset' = 0
        /\ visibleRange' = [startIndex |-> 75, endIndex |-> 125]
C14_AsStated == [][C14_AsStated_Step]_vars

\* C14: after the initialization that follows a scale switch the window has 200
\* periods, all spaced by the new scale's increment, and none by the old scale's
\* when the two increments differ; virtualOffset is 0 and visibleRange is reset to
\* the centre, whatever shifts and jumps went before.
C14_Step ==
    runsScaleSwitch =>
        /\ Len(allPeriods') = TOTAL_PERIODS
        /\ allSpacedBy(allPeriods', scale)
        /\ increment(windowScale) # increment(scale) => ~someSpacedBy(allPeriods', windowScale)
        /\ virtualOffset' = 0
        /\ visibleRange' = [startIndex |-> 75, endIndex |-> 125]
C14_ScaleSwitch == [][C14_Step]_vars

\* a window initialized for the month-increment scale after a switch
C14_Witness ==
    /\ lastOp = "initialize"
    /\ scale = "5-years" /\ windowScale = "5-years"
    /\ allSpacedBy(allPeriods, "5-years")
    /\ virtualOffset = 0

\* the date d lies less than one increment of sc away from the period start p
withinOnePeriod(sc, p, d) ==
    /\ add(p, negIncrement(sc)) < d
    /\ d < add(p, increment(sc))

\* C15: a scale switch keeps the timeline centred where it was: the centre period
\* of the new window is the new scale's alignment of the centre period D of the
\* window before the switch, or at least lies within one new-scale period of D.
C15_Step ==
    runsScaleSwitch =>
        \/ At(allPeriods', 100) = alignDate(scale, At(allPeriods, 100))
        \/ withinOnePeriod(scale, At(allPeriods', 100), At(allPeriods, 100))
C15_KeepsCentre == [][C15_Step]_vars

\* the index scrollToToday finds today's period at in the current window, or -1
todayIndexNow == findTodayIndex(allPeriods, scale, now)

todayAwayFromEdges ==
    /\ todayIndexNow >= edgeThreshold
    /\ todayIndexNow <= TOTAL_PERIODS - edgeThreshold

\* C16: a jump to today that finds today's period at an index i with
\* 50 <= i <= 150 leaves the window, virtualOffset and visibleRange unchanged,
\* queues no callback and only writes the scroll position.
C16_Step ==
    (scrollToToday /\ todayAwayFromEdges) =>
        /\ UNCHANGED << allPeriods, virtualOffset, visibleRange, timers, windowScale >>
        /\ lastOp' = "scrollToToday"
        /\ UNCHANGED << scale, isInitialRender, effectPending >>
        /\ scrollLeft' \in 0..maxScrollLeft(allPeriods, scale, clientWidth)
C16_TodayInPlace == [][C16_Step]_vars

\* a jump to today in a window whose visibleRange had moved off the centre
C16_Witness ==
    /\ lastOp = "scrollToToday"
    /\ todayAwayFromEdges
    /\ todayIndexNow # halfCount
    /\ visibleRange.startIndex # 75
    /\ virtualOffset = 0
    /\ timers = << >>

\* today's period is absent from the window or within 25% of either edge
todayAbsentOrNearEdge ==
    \/ todayIndexNow = -1
    \/ todayIndexNow < edgeThreshold
    \/ todayIndexNow > TOTAL_PERIODS - edgeThreshold

\* the window, virtualOffset, visibleRange and callback queue right after a
\* regeneration around today
regeneratedAroundToday ==
    /\ Len(allPeriods') = TOTAL_PERIODS
    /\ At(allPeriods', halfCount) = alignDate(scale, now)
    /\ virtualOffset' = 0
    /\ visibleRange'.startIndex < halfCount /\ halfCount < visibleRange'.endIndex
    /\ visibleRange'.startIndex + visibleRange'.endIndex \in { 2 * halfCount, 2 * halfCount + 1 }
    /\ Len(timers') = Len(timers) + 1
    /\ timers'[Len(timers')].kind = "today"
    /\ timers'[Len(timers')].before = At(allPeriods', halfCount)

\* C17 as stated: a jump to today whose period is absent from the window or found
\* below index 50 or above index 150 always regenerates the window around today:
\* window[100] is the scale's alignment of today, virtualOffset is 0,
\* visibleRange is centred on index 100 and the scroll write is deferred to a
\* callback computed against the new window.
C17_AsStated_Step == (scrollToToday /\ todayAbsentOrNearEdge) => regeneratedAroundToday
C17_AsStated == [][C17_AsStated_Step]_vars

\* another period of today's bucket lies between today's period and the edge it
\* is near
bucketReachesEdge ==
    \/ /\ todayIndexNow < edgeThreshold
       /\ \E i \in 0..(todayIndexNow - 1) : isPeriodOnSameDay(scale, At(allPeriods, i), now)
    \/ /\ todayIndexNow > TOTAL_PERIODS - edgeThreshold
       /\ \E i \in (todayIndexNow + 1)..(Len(allPeriods) - 1) :
             isPeriodOnSameDay(scale, At(allPeriods, i), now)

\* C17: a jump to today whose period is absent from the window, or found below
\* index 50 or above index 150 with no other period of today's bucket on the edge
\* side of it, regenerates the window around today (window[100] is the alignment
\* of today, virtualOffset 0, visibleRange centred on index 100, scroll write
\* deferred and computed against the new window); with such a period the jump
\* keeps the window and writes the scroll position at once.
C17_Step ==
    (scrollToToday /\ todayAbsentOrNearEdge) =>
        IF todayIndexNow # -1 /\ bucketReachesEdge
        THEN /\ UNCHANGED << allPeriods, virtualOffset, visibleRange, timers >>
             /\ lastOp' = "scrollToToday"
        ELSE regeneratedAroundToday
C17_TodayRegenerates == [][C17_Step]_vars

\* a window regenerated around today after today had left the shifted window
C17_Witness ==
    /\ lastOp = "regenerateToday"
    /\ scale = "month"
    /\ At(allPeriods, halfCount) = alignDate(scale, now)
    /\ virtualOffset = 0
    /\ Len(timers) = 2 /\ timers[1].stale /\ timers[2].kind = "today"

\* C18 as stated: a jump to a task whose start period is found in the current
\* window at an index from 50 to 150 leaves the window and virtualOffset unchanged
\* and only writes the scroll position; the window is regenerated only when the
\* start is absent or near an edge.
C18_AsStated_Step ==
    \A i \in 1..Len(data) :
        (scrollToTask(data[i]) /\ taskAwayFromEdges(data[i])) =>
            UNCHANGED << allPeriods, virtualOffset >>
C18_AsStated == [][C18_AsStated_Step]_vars

\* C18: a jump to a task regenerates the window in every case, also when the
\* start period is found in the current window away from its edges: window[100]
\* is the scale's alignment of task.start, virtualOffset is 0, visibleRange is
\* centred on index 100, and the scroll write is left to a deferred callback.
C18_Step ==
    \A i \in 1..Len(data) :
        scrollToTask(data[i]) =>
            /\ Len(allPeriods') = TOTAL_PERIODS
            /\ At(allPeriods', halfCount) = alignDate(scale, data[i].start)
            /\ virtualOffset' = 0
            /\ visibleRange'.startIndex < halfCount /\ halfCount < visibleRange'.endIndex
            /\ visibleRange'.startIndex + visibleRange'.endIndex
                    \in { 2 * halfCount, 2 * halfCount + 1 }
            /\ Len(timers') = Len(timers) + 1
            /\ timers'[Len(timers')].kind = "task"
            /\ scrollLeft' = scrollLeft
C18_TaskRegenerates == [][C18_Step]_vars

\* a jump to the task from the mounted window, in which its start sat at index 52
C18_Witness ==
    /\ lastOp = "regenerateTask"
    /\ scale = "day"
    /\ At(allPeriods, halfCount) = alignDate(scale, data[1].start)
    /\ scrollLeft = (2 * halfCount * periodWidthPx(scale) - clientWidth) \div 2
    /\ Len(timers) = 1 /\ timers[1].kind = "task"

\* ------------------------------------------------------------------------
\* getTodayPosition (645-740): where the today marker is drawn
\* ------------------------------------------------------------------------
\* the first index whose period and successor bracket today (658-668), or -1
bracketIndex(periods, today) ==
    LET hits == { i \in 0..(Len(periods) - 2) :
                    today >= At(periods, i) /\ today < At(periods, i + 1) }
    IN  IF hits = {} THEN -1 ELSE CHOOSE i \in hits : \A j \in hits : i <= j

\* beforeIndex after lines 658-721 and whether the marker is interpolated towards
\* the next period; shown is FALSE where the function returns null
getTodayPosition(periods, sc, today) ==
    IF Len(periods) = 0 THEN [shown |-> FALSE, beforeIndex |-> -1, hasNext |-> FALSE]
    ELSE IF bracketIndex(periods, today) # -1
    THEN [shown |-> TRUE, beforeIndex |-> bracketIndex(periods, today), hasNext |-> TRUE]
    ELSE IF findTodayIndex(periods, sc, today) = -1
    THEN [shown |-> FALSE, beforeIndex |-> -1, hasNext |-> FALSE]
    ELSE IF At(periods, findTodayIndex(periods, sc, today)) > today
    THEN IF findTodayIndex(periods, sc, today) > 0
         THEN [shown |-> TRUE, beforeIndex |-> findTodayIndex(periods, sc, today) - 1,
               hasNext |-> TRUE]
         ELSE [shown |-> TRUE, beforeIndex |-> 0, hasNext |-> FALSE]
    ELSE IF findTodayIndex(periods, sc, today) < Len(periods) - 1
    THEN [shown |-> TRUE, beforeIndex |-> findTodayIndex(periods, sc, today),
          hasNext |-> TRUE]
    ELSE [shown |-> TRUE, beforeIndex |-> Len(periods) - 1, hasNext |-> FALSE]

\* the scroll position that puts the marker position pos of periods in the middle
\* of a container of width c: max(0, P - c / 2) in whole px
markerCentred(periods, pos, today, pw, c) ==
    centeredTarget(pos.beforeIndex, pos.hasNext,
                   At(periods, pos.beforeIndex),
                   IF pos.hasNext THEN At(periods, pos.beforeIndex + 1) ELSE -1,
                   today, pw, c)

\* C19: once a jump to today has completed, by its synchronous write or by its
\* deferred callback, the today marker is drawn and scrollLeft is
\* max(0, P - clientWidth / 2), P being the pixel position of the marker in the
\* current window, under every scale.
C19_TodayCentred ==
    lastOp \in {"scrollToToday", "deferredToday"} =>
        /\ getTodayPosition(allPeriods, scale, now).shown
        /\ scrollLeft = markerCentred(allPeriods, getTodayPosition(allPeriods, scale, now),
                                      now, periodWidthPx(scale), clientWidth)

\* the scroll position that puts the date at, bracketed by periods i and i + 1, in
\* the middle of a container of width c: max(0, P - c / 2) in whole px
dateCentred(periods, i, at, pw, c) ==
    centeredTarget(i, TRUE, At(periods, i), At(periods, i + 1), at, pw, c)

\* C20 as stated: once the callback of a jump to a task has run, scrollLeft is
\* max(0, P - clientWidth / 2), P being the proportional pixel offset of
\* task.start in the window: the start of the task is centred in the viewport.
C20_AsStated_Step ==
    runsTimerOfKind("task") =>
        /\ bracketIndex(allPeriods, Head(timers).at) # -1
        /\ scrollLeft' = dateCentred(allPeriods, bracketIndex(allPeriods, Head(timers).at),
                                     Head(timers).at, periodWidthPx(scale), clientWidth)
C20_AsStated == [][C20_AsStated_Step]_vars

\* the least element of a set of indices, or -1
leastOr(S) == IF S = {} THEN -1 ELSE CHOOSE i \in S : \A j \in S : i <= j

\* the index in window of the first period that matches at exactly or, failing
\* that, of the first period later than at, or -1
firstMatchOrLater(window, sc, at) ==
    IF \E j \in 0..(Len(window) - 1) : isPeriodExactMatch(sc, At(window, j), at)
    THEN leastOr({ j \in 0..(Len(window) - 1) : isPeriodExactMatch(sc, At(window, j), at) })
    ELSE leastOr({ j \in 0..(Len(window) - 1) : At(window, j) > at })

\* the position the container holds after the callback of a jump to at wrote
\* (i - 1) period widths, i found in window
leftAlignedWrite(window, at) ==
    IF firstMatchOrLater(window, scale, at) = -1 THEN scrollLeft
    ELSE clampScroll(Max(0, (firstMatchOrLater(window, scale, at) - 1) * periodWidthPx(scale)),
                     allPeriods, scale, clientWidth)

\* C20: once the callback of a jump to a task has run, scrollLeft is
\* max(0, (i - 1) * periodWidth), where i is the index, in the window
\* regenerated around task.start, of the first period matching task.start or,
\* failing that, of the first period after it: the start period of the task is
\* one period right of the viewport's left edge, not in its centre.
C20_Step ==
    runsTimerOfKind("task") =>
        scrollLeft' = leftAlignedWrite(generatePeriods(scale, alignDate(scale, Head(timers).at)),
                                       Head(timers).at)
C20_TaskAtLeftEdge == [][C20_Step]_vars

\* the callback of a jump to the task on the quarter scale, where no period
\* matches task.start and the first later period is used
C20_Witness ==
    /\ lastOp = "deferredTask"
    /\ scale = "quarter"
    /\ firstMatchOrLater(allPeriods, scale, data[1].start) = halfCount + 1
    /\ scrollLeft = halfCount * periodWidthPx(scale)

\* instants at and next to the two ends of window
boundaryInstants(window) ==
    IF Len(window) = 0 THEN {}
    ELSE { window[1] - 1, window[1], window[1] + 1,
           window[Len(window)] - 1, window[Len(window)], window[Len(window)] + 1 }

\* the tasks of the data prop and tasks that start and end around the ends of window
probeTasks(window) ==
    { data[i] : i \in 1..Len(data) }
        \cup { Task(a, b) : a, b \in boundaryInstants(window) }

\* the interval of task shares an instant with [window[0], window[last]]
overlapsWindow(window, task) ==
    /\ Len(window) > 0
    /\ Max(task.start, window[1]) <= Min(task.end, window[Len(window)])

\* C21: a task is reported hidden exactly when the window is empty, or its end is
\* before window[0], or its start is after window[last]; no task whose interval
\* overlaps [window[0], window[last]] is hidden, and the query reads no period
\* of an empty window.
C21_Hidden ==
    \A task \in probeTasks(allPeriods) :
        /\ taskHidden(allPeriods, task) <=>
              \/ allPeriods = << >>
              \/ task.end < At(allPeriods, 0)
              \/ task.start > At(allPeriods, Len(allPeriods) - 1)
        /\ task.start <= task.end =>
              (taskHidden(allPeriods, task) <=> ~overlapsWindow(allPeriods, task))

\* a shifted window that the task overlaps only in part
C21_Witness ==
    /\ lastOp = "compensateRight"
    /\ data[1].start < At(allPeriods, 0)
    /\ ~taskHidden(allPeriods, data[1])
    /\ taskHidden(allPeriods, Task(At(allPeriods, 0) - 1, At(allPeriods, 0) - 1))

\* ------------------------------------------------------------------------
\* getTaskStyle (613-637): positions of a task that is not hidden, in px times
\* the minutes of the first period (the code divides by periodWidthMs)
\* ------------------------------------------------------------------------
\* differenceInMilliseconds(add(firstVisiblePeriod, increment), firstVisiblePeriod)
periodWidthMinutes(periods, sc) == add(periods[1], increment(sc)) - periods[1]

\* startPosition after Math.max(0, ...)
taskStartPosition(periods, sc, task) ==
    Max(0, (task.start - periods[1]) * periodWidthPx(sc))

\* endPosition after Math.min(allPeriods.length * periodWidth, ...)
taskEndPosition(periods, sc, task) ==
    Min(Len(periods) * periodWidthPx(sc) * periodWidthMinutes(periods, sc),
        (task.end - periods[1]) * periodWidthPx(sc))

\* width: endPosition - startPosition
taskWidth(periods, sc, task) ==
    taskEndPosition(periods, sc, task) - taskStartPosition(periods, sc, task)

\* C22: for every task that is not hidden, whatever the order of its start and
\* end, left >= 0, width >= 0 and left + width <= window.length * periodWidth.
C22_Clamped ==
    \A task \in probeTasks(allPeriods) :
        ~taskHidden(allPeriods, task) =>
            /\ taskStartPosition(allPeriods, windowScale, task) >= 0
            /\ taskWidth(allPeriods, windowScale, task) >= 0
            /\ taskStartPosition(allPeriods, windowScale, task)
                    + taskWidth(allPeriods, windowScale, task)
                 <= Len(allPeriods) * periodWidthPx(windowScale)
                        * periodWidthMinutes(allPeriods, windowScale)

\* the position pos (px times the minutes of the first period) lies in the
\* column of period i: i * periodWidth <= pos < (i + 1) * periodWidth
inColumn(periods, sc, i, pos) ==
    /\ i * periodWidthPx(sc) * periodWidthMinutes(periods, sc) <= pos
    /\ pos < (i + 1) * periodWidthPx(sc) * periodWidthMinutes(periods, sc)

\* C23: under every scale, a task edge at an instant d with
\* window[i] <= d < window[i+1] is drawn at (i + (d - window[i]) /
\* (window[i+1] - window[i])) * periodWidth and so inside
\* [i * periodWidth, (i+1) * periodWidth), for the left edge and for the right
\* edge (left + width).
C23_Interpolated ==
    \A k \in 1..Len(data) :
        ~taskHidden(allPeriods, data[k]) =>
            /\ bracketIndex(allPeriods, data[k].start) # -1 =>
                  inColumn(allPeriods, windowScale, bracketIndex(allPeriods, data[k].start),
                           taskStartPosition(allPeriods, windowScale, data[k]))
            /\ bracketIndex(allPeriods, data[k].end) # -1 =>
                  inColumn(allPeriods, windowScale, bracketIndex(allPeriods, data[k].end),
                           taskEndPosition(allPeriods, windowScale, data[k]))

\* the offset (722-737) of a marker drawn at pos for the instant t, in whole px
markerPxAt(periods, sc, t, pos) ==
    IF pos.hasNext
    THEN ((pos.beforeIndex * (At(periods, pos.beforeIndex + 1) - At(periods, pos.beforeIndex))
             + (t - At(periods, pos.beforeIndex))) * periodWidthPx(sc))
         \div (At(periods, pos.beforeIndex + 1) - At(periods, pos.beforeIndex))
    ELSE pos.beforeIndex * periodWidthPx(sc)

\* the today marker's offset for the instant t, in whole px
markerPx(periods, sc, t) == markerPxAt(periods, sc, t, getTodayPosition(periods, sc, t))

\* instants of [window[0], window[last]]: its ends, its middle, the clock and the
\* instants of the data prop
probeInstants(window) ==
    { t \in boundaryInstants(window)
             \cup { At(window, halfCount) - 1, At(window, halfCount),
                    At(window, halfCount) + 1, now }
             \cup UNION { { data[i].start, data[i].end } : i \in 1..Len(data) } :
        t >= window[1] /\ t <= window[Len(window)] }

\* C24: for every instant of [window[0], window[last]] the offset of the today
\* marker and the offset of a task edge lie in [0, (window.length - 1) *
\* periodWidth], and a later instant never gets a smaller offset, under every
\* scale.
C24_OffsetMonotone ==
    allPeriods # << >> =>
        LET shown == [t \in probeInstants(allPeriods) |->
                        getTodayPosition(allPeriods, windowScale, t).shown]
            marker == [t \in probeInstants(allPeriods) |->
                        IF shown[t] THEN markerPx(allPeriods, windowScale, t) ELSE -1]
            edge == [t \in probeInstants(allPeriods) |->
                        taskStartPosition(allPeriods, windowScale, Task(t, t))]
        IN  \A t \in probeInstants(allPeriods) :
                /\ shown[t]
                /\ marker[t] >= 0
                /\ marker[t] <= (Len(allPeriods) - 1) * periodWidthPx(windowScale)
                /\ edge[t] <= (Len(allPeriods) - 1) * periodWidthPx(windowScale)
                                * periodWidthMinutes(allPeriods, windowScale)
                /\ \A u \in probeInstants(allPeriods) :
                      t <= u => marker[t] <= marker[u] /\ edge[t] <= edge[u]

\* the window lies entirely before or entirely after the clock
nowOutsideWindow ==
    /\ allPeriods # << >>
    /\ \/ now < At(allPeriods, 0)
       \/ add(At(allPeriods, Len(allPeriods) - 1), increment(windowScale)) <= now

\* C25: whenever the clock lies outside the window, before window[0] or at least
\* one increment after window[last], the offset of the today marker is absent
\* (null), under every scale.
C25_MarkerAbsent ==
    nowOutsideWindow => ~getTodayPosition(allPeriods, windowScale, now).shown

\* ------------------------------------------------------------------------
\* The chart in a time zone with daylight saving time (Europe/London in 2024):
\* the getters of Date and the date-fns comparisons read local time, add() of
\* minutes and hours moves the instant.  Under the scales hours and day the
\* instants of the window do not depend on the zone (whole-hour offsets), so
\* the actions above generate the windows of this zone as well.
\* ------------------------------------------------------------------------
SummerTimeStart == MkDate(2024, 2, 31, 1, 0)
SummerTimeEnd == MkDate(2024, 9, 27, 1, 0)

\* minutes ahead of UTC at the instant t
zoneOffset(t) == IF t >= SummerTimeStart /\ t < SummerTimeEnd THEN 60 ELSE 0

\* the instant whose UTC fields are the local fields of t
localTime(t) == t + zoneOffset(t)

\* isPeriodExactMatch read in local time; date-fns isSameHour compares the
\* starts of the two hours, which are instants
isPeriodExactMatchLocal(sc, period, date) ==
    /\ sc = "day" => isSameHour(period, date)
    /\ isPeriodExactMatch(sc, localTime(period), localTime(date))

\* a task across the end of summer time, 2024-10-27 01:00 UTC
ZoneData == << Task(MkDate(2024, 9, 26, 22, 10), MkDate(2024, 9, 27, 3, 40)) >>

ZoneInit == MountedWith({ ZoneData })

ZoneNext ==
    \/ initializeWindow
    \/ handleScroll
    \/ \E x \in UserPositions(scale, clientWidth) : userScroll(x)
    \/ \E sc \in {"hours", "day"} : selectScale(sc)
    \/ runTimer

ZoneSpec == ZoneInit /\ [][ZoneNext]_vars

\* the indices before i whose period matches window[i] exactly: the first index
\* matching window[i] is i when this set is empty and window[i] matches itself
matchesBefore(window, sc, i) ==
    { j \in 0..(i - 1) : isPeriodExactMatchLocal(sc, At(window, j), At(window, i)) }

\* C26: in every window produced by initialize or shift, under the scale of the
\* window, the first index whose period exactly matches window[i] is i, for
\* every index i: no two distinct periods of a window match each other.
C26_IndexInverse ==
    \A i \in 0..(Len(allPeriods) - 1) :
        /\ isPeriodExactMatchLocal(windowScale, At(allPeriods, i), At(allPeriods, i))
        /\ matchesBefore(allPeriods, windowScale, i) = {}

\* ------------------------------------------------------------------------
\* The mark type of a period (PERIOD_CONFIGS[scale].getMarkType), rendered as
\* data-mark-type of every period cell
\* ------------------------------------------------------------------------
\* date-fns isWeekend: the day of the week is Sunday (0) or Saturday (6)
isWeekend(date) == getDay(date) \in {0, 6}

\* the mark types with every month of the 5-years scale major
getMarkTypeAllMonthsMajor(sc, date) ==
    CASE sc = "hours" -> IF getMinutes(date) = 0 THEN "major" ELSE "minor"
      [] sc \in {"week", "bi-week", "month"} ->
            IF isWeekend(date) THEN "weekend" ELSE "major"
      [] OTHER -> "major"

getMarkType(sc, date) ==
    CASE sc = "hours" -> IF getMinutes(date) = 0 THEN "major" ELSE "minor"
      [] sc = "day" -> "major"
      [] sc \in {"week", "bi-week", "month"} ->
            IF isWeekend(date) THEN "weekend" ELSE "major"
      [] sc \in {"quarter", "year"} -> "major"
      [] sc = "5-years" -> IF getMonth(date) = 0 THEN "major" ELSE "minor"

\* the periods of the window whose mark under the scale sc is m
periodsMarked(sc, m) ==
    { i \in 0..(Len(allPeriods) - 1) : getMarkType(sc, At(allPeriods, i)) = m }

\* the periods of the window on a whole hour, on a Saturday or Sunday, in January
onWholeHour == { i \in 0..(Len(allPeriods) - 1) : At(allPeriods, i) % 60 = 0 }
onSaturdayOrSunday ==
    { i \in 0..(Len(allPeriods) - 1) : (DayNumber(At(allPeriods, i)) + 5) % 7 <= 1 }
inJanuary ==
    { i \in 0..(Len(allPeriods) - 1) :
        \E y \in getFullYear(At(allPeriods, 0))..getFullYear(At(allPeriods, Len(allPeriods) - 1)) :
            /\ At(allPeriods, i) >= MkDate(y, 0, 1, 0, 0)
            /\ At(allPeriods, i) < MkDate(y, 1, 1, 0, 0) }
everyPeriod == 0..(Len(allPeriods) - 1)

PropInit == MountedWithProps({ TestData }, Scales)

PropNext ==
    \/ initializeWindow
    \/ runTimer
    \/ handleScroll
    \/ \E x \in UserPositions(scale, clientWidth) : userScroll(x)
    \/ \E sc \in Scales : selectScale(sc)

PropSpec == PropInit /\ [][PropNext]_vars

\* C28: the effect of the first render leaves the chart with the scale prop
\* (day when the prop is omitted) as its active scale, for each of the 8 scale
\* identifiers, and generates the initial window with that scale's increment.
C28_ScaleProp ==
    [][(isInitialRender /\ initializeWindow) =>
            /\ scale' = scaleProp
            /\ allSpacedBy(allPeriods', scaleProp)]_vars

\* ------------------------------------------------------------------------
\* The scale selector and the onScaleChange prop
\* ------------------------------------------------------------------------
\* C29: every selection of a scale X in the selector makes X the active scale
\* and schedules the regeneration of the window for X, and calls the supplied
\* onScaleChange with X.
C29_SelectNotifies ==
    [][\A sc \in Scales :
            selectScale(sc) =>
                /\ scale' = sc
                /\ effectPending'
                /\ scaleChangeCalls' = Append(scaleChangeCalls, sc)]_vars

\* the part of C29 about the chart's own state: the selection makes X the active
\* scale, and the initialization that follows generates the window of X
C29_SelectSetsScale ==
    [][/\ \A sc \in Scales : selectScale(sc) => (scale' = sc /\ effectPending')
       /\ runsScaleSwitch =>
            (windowScale' = scale /\ allSpacedBy(allPeriods', scale))]_vars

\* ------------------------------------------------------------------------
\* The bounds of visibleRange
\* ------------------------------------------------------------------------
\* no effect, no zero-delay callback and no scroll event is waiting to run
quiescent == ~effectPending /\ timers = << >> /\ ~scrollEvent

rangeWithinWindow ==
    /\ 0 <= visibleRange.startIndex
    /\ visibleRange.startIndex <= visibleRange.endIndex
    /\ visibleRange.endIndex <= Len(allPeriods)

\* C30: visibleRange has startIndex <= endIndex in every reachable state, and
\* 0 <= startIndex <= endIndex <= window.length in every state in which no
\* deferred callback and no scroll event is pending (the effect of a render
\* that has not run yet counts as pending: the window of the mount state is
\* still empty).
C30_RangeBounds ==
    /\ visibleRange.startIndex <= visibleRange.endIndex
    /\ quiescent => rangeWithinWindow

\* ------------------------------------------------------------------------
\* virtualOffsetRef: the net shift of the window since its generation
\* ------------------------------------------------------------------------
\* k increments of the scale sc as one duration
incrementTimes(sc, k) ==
    Duration(k * increment(sc).months, k * increment(sc).days,
             k * increment(sc).hours, k * increment(sc).minutes)

\* the instant g0 with window[0] = g0 + vo increments
generationStart(window, sc, vo) == add(window[1], incrementTimes(sc, -vo))

\* the steps that generate a window: the effect, and the regenerations of
\* scrollToToday and scrollToTask
generates(op) == op \in {"initialize", "regenerateToday", "regenerateTask"}

\* C31: virtualOffset is 0 right after every initialization or regeneration;
\* every other step keeps window[0] = g0 + virtualOffset * increment for the
\* first period g0 of the last generation, and changes virtualOffset by -100
\* when it is an applied shift left, by +100 when it is an applied shift right,
\* and not at all otherwise.
C31_OffsetTracksShifts ==
    [][IF generates(lastOp')
       THEN virtualOffset' = 0
       ELSE /\ virtualOffset' - virtualOffset =
                   (CASE lastOp' = "shiftLeft" /\ allPeriods # << >> -> -PERIODS_TO_SHIFT
                      [] lastOp' = "shiftRight" /\ allPeriods # << >> -> PERIODS_TO_SHIFT
                      [] OTHER -> 0)
            /\ allPeriods # << >> =>
                   generationStart(allPeriods', windowScale', virtualOffset')
                       = generationStart(allPeriods, windowScale, virtualOffset)]_vars

\* a window shifted left once and never regenerated since, its compensation done
C31_Witness ==
    /\ lastOp = "compensateLeft"
    /\ virtualOffset = -PERIODS_TO_SHIFT
    /\ generationStart(allPeriods, windowScale, virtualOffset)
           = At(windowAround(scale, alignDate(scale, centerDate)), 0)

\* ------------------------------------------------------------------------
\* The rendered slice: visiblePeriods and periodsOffset (235-246)
\* ------------------------------------------------------------------------
\* Array.prototype.slice: a negative index counts from the end of the array
relativeIndex(i, len) == IF i < 0 THEN Max(len + i, 0) ELSE Min(i, len)

\* the 0-based indices of the elements that slice(start, end) returns
sliceIndices(len, start, end) ==
    { i \in 0..(len - 1) : relativeIndex(start, len) <= i /\ i < relativeIndex(end, len) }

\* the window indices of visiblePeriods
visibleIndices(periods, range) ==
    sliceIndices(Len(periods),
                 Max(0, range.startIndex - VISIBLE_BUFFER),
                 Min(Len(periods), range.endIndex + VISIBLE_BUFFER))

\* periodsOffset in px
periodsOffsetPx(range, sc) == Max(0, range.startIndex - VISIBLE_BUFFER) * periodWidthPx(sc)

\* the least element of a non-empty set of indices
firstOf(S) == CHOOSE i \in S : \A j \in S : i <= j

\* C32: the rendered periods are exactly the window elements with index in
\* [max(0, startIndex - 50), min(window.length, endIndex + 50)), none when that
\* interval is empty, and periodsOffset is the window index of the first
\* rendered period times the period width.
C32_RenderedSlice ==
    LET rendered == visibleIndices(allPeriods, visibleRange)
    IN  /\ rendered = { i \in 0..(Len(allPeriods) - 1) :
                            /\ Max(0, visibleRange.startIndex - 50) <= i
                            /\ i < Min(Len(allPeriods), visibleRange.endIndex + 50) }
        /\ rendered # {} =>
               periodsOffsetPx(visibleRange, scale) = firstOf(rendered) * periodWidthPx(scale)

\* ------------------------------------------------------------------------
\* The frame of a scroll event outside the trigger zones
\* ------------------------------------------------------------------------
\* the position s is at least 10% of the window's width from its left edge and
\* the right edge of the viewport at least 10% from its right edge
inNeitherZone(s) ==
    /\ 100 * s >= SCROLL_THRESHOLD_PCT * totalWidthPx(allPeriods, scale)
    /\ 100 * (s + clientWidth) <= (100 - SCROLL_THRESHOLD_PCT) * totalWidthPx(allPeriods, scale)

onlyRangeChanges ==
    UNCHANGED << inputs, scaleChangeCalls, scale, allPeriods, virtualOffset, timers,
                 isInitialRender, effectPending, windowScale >>

\* C33: a scroll event handled at a position in neither trigger zone changes
\* only visibleRange: the window, virtualOffset, the active scale, the pending
\* callbacks and the scroll position the event reported are left as they were.
\* (The task geometry and the position of the today marker are operators of
\* the state and change nothing.)
C33_ScrollFrame ==
    [][/\ (handleScroll /\ ~isInitialRender /\ inNeitherZone(scrollLeft)) =>
            /\ onlyRangeChanges
            /\ scrollLeft' = scrollLeft
            /\ visibleRange' = rangeOfScroll(scrollLeft, clientWidth, periodWidthPx(scale))
       /\ \A x \in UserPositions(scale, clientWidth) :
            (userScroll(x) /\ inNeitherZone(x)) =>
                /\ onlyRangeChanges
                /\ scrollLeft' = x
                /\ visibleRange' = rangeOfScroll(x, clientWidth, periodWidthPx(scale))]_vars

\* a scroll event exactly at the left threshold has been handled in a window
\* that was shifted before
C33_Witness ==
    /\ lastOp = "visibleRange"
    /\ 100 * scrollLeft = SCROLL_THRESHOLD_PCT * totalWidthPx(allPeriods, scale)
    /\ virtualOffset # 0
    /\ visibleRange = rangeOfScroll(scrollLeft, clientWidth, periodWidthPx(scale))

\* ------------------------------------------------------------------------
\* The fallback index of today
\* ------------------------------------------------------------------------
\* no period of the window exactly matches the instant aligned
noExactMatch(aligned) ==
    \A i \in 0..(Len(allPeriods) - 1) : ~isPeriodExactMatch(scale, At(allPeriods, i), aligned)

\* the indices of the periods on the calendar day (day number), in the calendar
\* month (year, month), in the calendar year of the clock, as the scale's bucket is
bucketOf(day, year, month) ==
    { i \in 0..(Len(allPeriods) - 1) :
        CASE scale \in {"hours", "day", "week", "bi-week", "month"} ->
                At(allPeriods, i) \div MinutesPerDay = day
          [] scale \in {"quarter", "year"} ->
                /\ getFullYear(At(allPeriods, i)) = year
                /\ getMonth(At(allPeriods, i)) = month
          [] scale = "5-years" -> getFullYear(At(allPeriods, i)) = year }

todayBucket == bucketOf(now \div MinutesPerDay, getFullYear(now), getMonth(now))

\* index idx is in the bucket and no period of the bucket is closer to the clock,
\* nor as close and earlier
closestOf(idx, bucket) ==
    /\ idx \in bucket
    /\ \A j \in bucket :
        \/ Abs(At(allPeriods, idx) - now) < Abs(At(allPeriods, j) - now)
        \/ (Abs(At(allPeriods, idx) - now) = Abs(At(allPeriods, j) - now) /\ idx <= j)

\* C34: when no period exactly matches the aligned clock, the index chosen for
\* today is -1 exactly when today's bucket holds no period of the window, and
\* otherwise the index of the bucket's period closest in time to the clock, the
\* earliest one on ties.
C34_ClosestInBucket ==
    (allPeriods # << >> /\ noExactMatch(alignDate(scale, now))) =>
        LET idx == todayIndexNow
            bucket == todayBucket
        IN  /\ idx = -1 <=> bucket = {}
            /\ idx # -1 => closestOf(idx, bucket)

\* the window has been shifted so that it ends within today, before the clock:
\* the bucket holds several periods, the closest of them is not the first
C34_Witness ==
    /\ allPeriods # << >>
    /\ windowScale = scale
    /\ lastOp \in {"compensateLeft", "compensateRight"}
    /\ noExactMatch(alignDate(scale, now))
    /\ todayIndexNow # -1
    /\ \E j \in todayBucket : j < todayIndexNow

\* ------------------------------------------------------------------------
\* A shift and the empty window
\* ------------------------------------------------------------------------
\* handleScroll, the only caller of the two shifts, returns at once while
\* isInitialRender is set, and the effect that clears it fills the window: a
\* shift never meets the empty window of the mount state
windowFilledOnceScrollable == ~isInitialRender => Len(allPeriods) = TOTAL_PERIODS

\* ------------------------------------------------------------------------
\* The scroll event of a deferred scroll write
\* ------------------------------------------------------------------------
\* the last step ran the deferred callback of a shift or of a (re)generation,
\* and no other callback is pending
deferredPhaseDone ==
    /\ lastOp \in {"compensateLeft", "compensateRight", "deferredInit",
                   "deferredToday", "deferredTask"}
    /\ timers = << >>

\* C36: when the scroll event caused by the scroll write of the deferred
\* callback of a shift or regeneration is handled, with no user scrolling in
\* between, visibleRange becomes {floor(scrollLeft / periodWidthPx),
\* floor(scrollLeft / periodWidthPx) + ceil(containerWidth / periodWidthPx)}.
C36_RangeFollowsScroll ==
    [][(deferredPhaseDone /\ handleScroll) =>
            /\ scrollLeft' = scrollLeft
            /\ visibleRange'.startIndex = scrollLeft \div periodWidthPx(scale)
            /\ visibleRange'.endIndex =
                    scrollLeft \div periodWidthPx(scale)
                        + CeilDiv(clientWidth, periodWidthPx(scale))]_vars

\* ------------------------------------------------------------------------
\* The window and the active scale in every render
\* ------------------------------------------------------------------------
\* C37: in every state (each is rendered: a state change is followed by a
\* render before the effect of that render runs) the periods of the window are
\* spaced by the increment of the active scale.
C37_WindowOfActiveScale ==
    allPeriods # << >> => allSpacedBy(allPeriods, scale)

\* ------------------------------------------------------------------------
\* alignDate and isPeriodExactMatch
\* ------------------------------------------------------------------------
\* the instants a window is generated around: the centre of the data, the
\* clock, the start of a task
centreInstants == { centerDate, now } \cup { data[i].start : i \in 1..Len(data) }

\* the 0-based indices of the periods of window that exactly match d
exactMatches(window, sc, d) ==
    { i \in 0..(Len(window) - 1) : isPeriodExactMatch(sc, At(window, i), d) }

\* alignDate is idempotent and alignDate(d) <= d < alignDate(d) + one increment
alignedWithinIncrement(sc, d) ==
    /\ alignDate(sc, alignDate(sc, d)) = alignDate(sc, d)
    /\ alignDate(sc, d) <= d
    /\ d < add(alignDate(sc, d), increment(sc))

\* C38: under the active scale S and for every instant d a window is generated
\* around, alignDate is idempotent, alignDate(d) <= d < alignDate(d) + one
\* increment, alignDate(d) exactly matches d, and in the window generated around
\* d the only period that exactly matches d is the centre, index 100.
C38_AlignMatches ==
    \A d \in centreInstants :
        /\ alignedWithinIncrement(scale, d)
        /\ isPeriodExactMatch(scale, alignDate(scale, d), d)
        /\ exactMatches(windowAround(scale, alignDate(scale, d)), scale, d) = { halfCount }

\* ------------------------------------------------------------------------
\* The period-header groups of the rendered slice (890-935)
\* ------------------------------------------------------------------------
\* a variant that groups the months of the 5-years scale by their month alone
getGroupKeyMonthOfYear(sc, period) ==
    CASE sc \in {"hours", "day"} ->
            << getFullYear(period), getMonth(period), getDate(period) >>
      [] sc \in {"week", "bi-week", "month", "quarter", "year"} ->
            << getFullYear(period), getMonth(period) >>
      [] sc = "5-years" -> << getMonth(period) >>

\* PERIOD_CONFIGS[scale].getGroupKey: the fields the key string is built from
getGroupKey(sc, period) ==
    CASE sc \in {"hours", "day"} ->
            << getFullYear(period), getMonth(period), getDate(period) >>
      [] sc \in {"week", "bi-week", "month", "quarter", "year"} ->
            << getFullYear(period), getMonth(period) >>
      [] sc = "5-years" -> << getFullYear(period) >>

\* the group keys of the n rendered periods, by slice index
sliceKeys(periods, sc, first, n) ==
    [i \in 0..(n - 1) |-> getGroupKey(sc, At(periods, first + i))]

\* the groups after the forEach: one per key, startIndex the slice index of the
\* key's first period, left and width in px as rendered
headerGroups(keys, pw) ==
    { [key |-> k,
       left |-> firstOf({ i \in DOMAIN keys : keys[i] = k }) * pw,
       width |-> Cardinality({ i \in DOMAIN keys : keys[i] = k }) * pw] :
      k \in { keys[i] : i \in DOMAIN keys } }

\* the groups of the slice rendered in this state
renderedGroups ==
    IF visibleIndices(allPeriods, visibleRange) = {} THEN {}
    ELSE headerGroups(sliceKeys(allPeriods, scale,
                                firstOf(visibleIndices(allPeriods, visibleRange)),
                                Cardinality(visibleIndices(allPeriods, visibleRange))),
                      periodWidthPx(scale))

\* C39: the header groups partition the rendered slice: the periods of a group
\* are exactly the consecutive slice positions from left / periodWidth up to
\* (left + width) / periodWidth, so every slice position lies under exactly one
\* group, the group of its key, and the widths add up to the slice's width.
C39_GroupsPartition ==
    LET idx == visibleIndices(allPeriods, visibleRange)
        n == Cardinality(idx)
        pw == periodWidthPx(scale)
        keys == IF idx = {} THEN << >> ELSE sliceKeys(allPeriods, scale, firstOf(idx), n)
        groups == IF idx = {} THEN {} ELSE headerGroups(keys, pw)
    IN  \A i \in 0..(n - 1) :
            \A g \in groups :
                (g.left <= i * pw /\ i * pw < g.left + g.width) <=> keys[i] = g.key

\* a slice of months that spans several years, rendered after a shift
C39_Witness ==
    /\ scale = "5-years"
    /\ windowScale = scale
    /\ lastOp \in {"compensateLeft", "compensateRight"}
    /\ Cardinality(renderedGroups) >= 3

====
